---- MODULE Spec2Model ----
(***************************************************************************)
(* Coffee-shop queueing simulation (src/simulation.py): a single FIFO      *)
(* queue, several servers with deterministic service times, deterministic  *)
(* interarrival times, driven by a SimPy environment.                      *)
(*                                                                         *)
(* Times are floats in the program; the configurations explored here are   *)
(* integers, on which every float operation of the program is exact.       *)
(* The SimPy environment is the library's event heap: entries ordered by   *)
(* (time, priority, insertion id), URGENT before NORMAL.                   *)
(***************************************************************************)
EXTENDS Integers, Sequences, FiniteSets, TLC

\* ---------- bounds of the explored configurations ----------
MaxServers  == 2
MaxService  == 4
MaxInter    == 3
MaxHorizon  == 10
MaxFinalizeCalls == 2   \* calls of the finalization step explored
MaxCustomers == 4       \* arrivals explored when the interarrival time is 0

\* ---------- values ----------
None    == -1        \* Optional[float] / Optional[int] left unset
NoName  == "None"    \* Optional[str] left unset
URGENT  == 0
NORMAL  == 1

ServerNames == <<"S1", "S2", "S3", "S4", "S5">>

VARIABLES
  sim,        \* the CoffeeShopSim object (its fields, the servers included)
  customers,  \* the Customer objects, indexed by cid
  env,        \* the simpy.Environment: now, the event heap, the id counter
  stdout,     \* the CSV event lines printed so far
  snap,       \* at each printed line: the actual queue and busy flags then
  phase,      \* position of main(): constructed, running, stopped, crashed, finalized
  report,     \* the aggregate statistics printed by finalization
  finalize_calls  \* how many times finalize_and_print_stats has been called

vars == <<sim, customers, env, stdout, snap, phase, report, finalize_calls>>

\* The part of the state the handlers thread through their statements.
World == [sim |-> sim, customers |-> customers, env |-> env,
          stdout |-> stdout, snap |-> snap]

\* ---------- Data models ----------

Customer(cid, arrival_time) ==
  [cid |-> cid, arrival_time |-> arrival_time, service_start_time |-> None,
   server_name |-> NoName, service_time |-> None]

Server(name, service_time) ==
  [name |-> name, service_time |-> service_time, busy |-> FALSE,
   busy_time_accum |-> 0, last_state_change |-> 0, current_cid |-> None]

\* variant: the elapsed time is added whether or not the server was busy
set_busy_always(s, env_now, busy) ==
  [s EXCEPT !.busy_time_accum = @ + (env_now - s.last_state_change),
            !.busy = busy,
            !.last_state_change = env_now]

set_busy(s, env_now, busy) ==
  [s EXCEPT !.busy_time_accum = IF s.busy THEN @ + (env_now - s.last_state_change) ELSE @,
            !.busy = busy,
            !.last_state_change = env_now]

\* ---------- simpy.Environment ----------

Environment == [now |-> 0, queue |-> {}, eid |-> 0]

\* Environment.schedule: heappush((now + delay, priority, next(eid), event))
schedule(e, priority, delay, kind, cid, srv) ==
  [e EXCEPT !.queue = @ \cup {[time |-> e.now + delay, priority |-> priority,
                               eid |-> e.eid, kind |-> kind, cid |-> cid, srv |-> srv]},
            !.eid = @ + 1]

\* variant: among entries of equal time and priority the later one first
Before_lifo(a, b) ==
  \/ a.time < b.time
  \/ a.time = b.time /\ a.priority < b.priority
  \/ a.time = b.time /\ a.priority = b.priority /\ a.eid > b.eid

\* the order of the heap entries (time, priority, eid)
Before(a, b) ==
  \/ a.time < b.time
  \/ a.time = b.time /\ a.priority < b.priority
  \/ a.time = b.time /\ a.priority = b.priority /\ a.eid < b.eid

\* the entry heappop returns
HeapTop(q) == CHOOSE a \in q : \A b \in q \ {a} : Before(a, b)

\* Environment.step: pop the entry and move the clock to its time
step(e) == [e EXCEPT !.now = HeapTop(e.queue).time, !.queue = @ \ {HeapTop(e.queue)}]

\* Timeout(env, delay): scheduled NORMAL after delay
timeout(e, delay, kind, cid, srv) == schedule(e, NORMAL, delay, kind, cid, srv)

\* Process(env, generator): its Initialize event is scheduled URGENT, now
process(e, kind, cid, srv) == schedule(e, URGENT, 0, kind, cid, srv)

\* a generator that returns: the Process event itself is scheduled NORMAL, now
process_exit(e) == schedule(e, NORMAL, 0, "process_end", 0, 0)

\* ---------- CoffeeShopSim ----------

CoffeeShopSim(servers, interarrival_time, time_limit) ==
  [servers |-> servers, N |-> Len(servers),
   interarrival_time |-> interarrival_time, time_limit |-> time_limit,
   queue |-> <<>>, next_cid |-> 1,
   area_under_q |-> 0, last_q_change_time |-> 0, cur_q_len |-> 0, max_q_len |-> 0,
   total_wait_time |-> 0, count_started |-> 0,
   total_service_time_completed |-> 0, count_completed |-> 0,
   waiting_customers |-> {}, in_service |-> {}]

\* variant: the area is added but last_q_change_time is left behind
_update_q_time_area_nostamp(s, now) ==
  LET dt == now - s.last_q_change_time IN
  IF dt > 0
    THEN [s EXCEPT !.area_under_q = @ + s.cur_q_len * dt]
    ELSE s

_update_q_time_area(s, now) ==
  LET dt == now - s.last_q_change_time IN
  IF dt > 0
    THEN [s EXCEPT !.area_under_q = @ + s.cur_q_len * dt, !.last_q_change_time = now]
    ELSE s

\* variant: the maximum is kept but cur_q_len is not stored
_set_q_len_stale(s, now, new_len) ==
  LET s1 == _update_q_time_area(s, now)
  IN  IF new_len > s1.max_q_len THEN [s1 EXCEPT !.max_q_len = new_len] ELSE s1

_set_q_len(s, now, new_len) ==
  LET s1 == _update_q_time_area(s, now)
      s2 == [s1 EXCEPT !.cur_q_len = new_len]
  IN  IF s2.cur_q_len > s2.max_q_len THEN [s2 EXCEPT !.max_q_len = s2.cur_q_len] ELSE s2

RECURSIVE CountFree(_, _)
CountFree(servers, i) ==
  IF i > Len(servers) THEN 0
  ELSE (IF servers[i].busy THEN 0 ELSE 1) + CountFree(servers, i + 1)

\* variant: the busy servers counted instead of the free ones
servers_available_busy(s) == Len(s.servers) - CountFree(s.servers, 1)

servers_available(s) == CountFree(s.servers, 1)

\* what the queue and the busy flags actually are at this instant
Observe(w) ==
  [queue |-> w.sim.queue,
   busy |-> [i \in 1..Len(w.sim.servers) |-> w.sim.servers[i].busy]]

log(w, now, event_type, cid, server_name) ==
  [w EXCEPT !.stdout = Append(@, [time |-> now, event |-> event_type, customer |-> cid,
                                  server |-> server_name, length |-> w.sim.cur_q_len,
                                  available |-> servers_available(w.sim)]),
            !.snap = Append(@, Observe(w))]

\* variant: all() in place of any()
any_free_all(servers) == \A i \in 1..Len(servers) : ~servers[i].busy

\* any(not s.busy for s in self.servers)
any_free(servers) == \E i \in 1..Len(servers) : ~servers[i].busy

\* variant: the last free server in list order
first_free_last(servers) ==
  CHOOSE i \in 1..Len(servers) :
    ~servers[i].busy /\ \A j \in (i+1)..Len(servers) : servers[j].busy

\* variant: the busy flag is not looked at
first_free_unchecked(servers) == 1

\* next(s for s in self.servers if not s.busy): index of the first free server

first_free(servers) ==
  CHOOSE i \in 1..Len(servers) :
    ~servers[i].busy /\ \A j \in 1..(i-1) : servers[j].busy

\* variant: the front customer is read but left in the queue
popleft_keep(q) == [customer |-> Head(q), rest |-> q]

\* variant: pop() from the right end
popleft_right(q) == [customer |-> q[Len(q)], rest |-> SubSeq(q, 1, Len(q) - 1)]

\* self.queue.popleft(): the customer taken and the queue left
popleft(q) == [customer |-> Head(q), rest |-> Tail(q)]

\* one pass of the body of the while loop of try_dispatch
dispatch_one(w) ==
  LET now    == w.env.now
      k      == first_free(w.sim.servers)
      server == w.sim.servers[k]
      p      == popleft(w.sim.queue)
      cid    == p.customer
      s1     == [w.sim EXCEPT !.queue = p.rest, !.waiting_customers = @ \ {cid}]
      s2     == _set_q_len(s1, now, Len(s1.queue))
      c1     == [w.customers[cid] EXCEPT !.service_start_time = now,
                                          !.server_name = server.name,
                                          !.service_time = server.service_time]
      wait_time == c1.service_start_time - c1.arrival_time
      s3     == [s2 EXCEPT !.total_wait_time = @ + wait_time,
                           !.count_started = @ + 1,
                           !.servers[k] = set_busy([server EXCEPT !.current_cid = cid], now, TRUE)]
      w1     == log([w EXCEPT !.sim = s3, !.customers[cid] = c1],
                    now, "SERVICE_START", cid, server.name)
  IN  [w1 EXCEPT !.sim.in_service = @ \cup {cid},
                 !.env = process(@, "service_init", cid, k)]

RECURSIVE try_dispatch(_)
try_dispatch(w) ==
  IF w.sim.queue # <<>> /\ any_free(w.sim.servers)
    THEN try_dispatch(dispatch_one(w))
    ELSE w

\* arrivals_process, from the top of its loop to its next yield or its return
arrivals_loop(w) ==
  IF w.env.now > w.sim.time_limit
    THEN [w EXCEPT !.env = process_exit(@)]
    ELSE
      LET now == w.env.now
          c   == Customer(w.sim.next_cid, now)
          s1  == [w.sim EXCEPT !.next_cid = @ + 1,
                               !.queue = Append(@, c.cid),
                               !.waiting_customers = @ \cup {c.cid}]
          s2  == _set_q_len(s1, now, Len(s1.queue))
          w1  == log([w EXCEPT !.sim = s2, !.customers = Append(@, c)],
                     now, "ARRIVAL", c.cid, "")
          w2  == try_dispatch(w1)
          next_time == w2.env.now + w2.sim.interarrival_time
      IN  IF next_time > w2.sim.time_limit
            THEN [w2 EXCEPT !.env = timeout(@, w2.sim.time_limit - w2.env.now,
                                            "arrivals_break", 0, 0)]
            ELSE [w2 EXCEPT !.env = timeout(@, w2.sim.interarrival_time,
                                            "arrivals_loop", 0, 0)]

\* variant: the service lasts the interarrival time
service_begin_inter(w, cid, k) ==
  [w EXCEPT !.env = timeout(@, w.sim.interarrival_time, "service_done", cid, k)]

\* service_process up to its yield
service_begin(w, cid, k) ==
  [w EXCEPT !.env = timeout(@, w.sim.servers[k].service_time, "service_done", cid, k)]

\* variant: the completion is not counted
service_done_stats_uncounted(s, service_time) ==
  [s EXCEPT !.total_service_time_completed = @ + service_time]

\* service_process after its yield: the completed-service statistics
service_done_stats(s, service_time) ==
  [s EXCEPT !.total_service_time_completed = @ + service_time,
            !.count_completed = @ + 1]

\* variant: no dispatch attempt after the completion
service_end_nodispatch(w, cid, k) ==
  LET now == w.env.now
      server == w.sim.servers[k]
      s0 == service_done_stats(w.sim, server.service_time)
      s1 == [s0 EXCEPT !.servers[k] = [set_busy(server, now, FALSE) EXCEPT !.current_cid = None],
                          !.in_service = @ \ {cid}]
      w1 == log([w EXCEPT !.sim = s1], now, "SERVICE_DONE", cid, server.name)
  IN  [w1 EXCEPT !.env = process_exit(@)]

\* service_process after its yield
service_end(w, cid, k) ==
  LET now == w.env.now
      server == w.sim.servers[k]
      service_time == server.service_time
      s0 == service_done_stats(w.sim, service_time)
      s1 == [s0 EXCEPT !.servers[k] = [set_busy(server, now, FALSE) EXCEPT !.current_cid = None],
                          !.in_service = @ \ {cid}]
      name == IF w.customers[cid].server_name # NoName
                THEN w.customers[cid].server_name ELSE server.name
      w1 == log([w EXCEPT !.sim = s1], now, "SERVICE_DONE", cid, name)
      w2 == try_dispatch(w1)
  IN  [w2 EXCEPT !.env = process_exit(@)]

\* ---------- the run ----------

ServerLists ==
  UNION {[1..n -> 1..MaxService] : n \in 1..MaxServers}

\* main(): the simulation object built from the parsed configuration
InitWith(interarrivals, limits) ==
  /\ \E st \in ServerLists, ia \in interarrivals, tl \in limits :
       sim = CoffeeShopSim([i \in 1..Len(st) |-> Server(ServerNames[i], st[i])], ia, tl)
  /\ customers = <<>>
  /\ env = Environment
  /\ stdout = <<>>
  /\ snap = <<>>
  /\ phase = "constructed"
  /\ report = [printed |-> FALSE]
  /\ finalize_calls = 0

Init == InitWith(1..MaxInter, 0..MaxHorizon)

Commit(w) ==
  /\ sim' = w.sim
  /\ customers' = w.customers
  /\ env' = w.env
  /\ stdout' = w.stdout
  /\ snap' = w.snap

\* variant: the stop event one time unit late
until_delay_late(at, now) == at - now + 1

\* the delay until the stop event of env.run(until=...)
until_delay(at, now) == at - now

\* variant: a non-positive interarrival time is rejected before the run
run_validating ==
  /\ phase = "constructed"
  /\ LET e1 == process(env, "arrivals_init", 0, 0)
         at == sim.time_limit
     IN  IF at <= e1.now \/ sim.interarrival_time <= 0
           THEN /\ env' = e1
                /\ phase' = "crashed"
           ELSE /\ env' = schedule(e1, URGENT, until_delay(at, e1.now), "until", 0, 0)
                /\ phase' = "running"
  /\ UNCHANGED <<sim, customers, stdout, snap, report, finalize_calls>>

\* CoffeeShopSim.run: start the arrivals, then Environment.run(until=time_limit).
\* Environment.run raises ValueError unless until is after the current time
\* (main does not catch it), and otherwise schedules its stop event URGENT at
\* until, so that it precedes every timeout due at that same time.
run ==
  /\ phase = "constructed"
  /\ LET e1 == process(env, "arrivals_init", 0, 0)
         at == sim.time_limit
     IN  IF at <= e1.now
           THEN /\ env' = e1
                /\ phase' = "crashed"
           ELSE /\ env' = schedule(e1, URGENT, until_delay(at, e1.now), "until", 0, 0)
                /\ phase' = "running"
  /\ UNCHANGED <<sim, customers, stdout, snap, report, finalize_calls>>

Due(kind) ==
  /\ phase = "running"
  /\ env.queue # {}
  /\ HeapTop(env.queue).kind = kind

Stepped == [World EXCEPT !.env = step(env)]

ArrivalsStart ==
  /\ Due("arrivals_init")
  /\ Commit(arrivals_loop(Stepped))
  /\ UNCHANGED <<phase, report, finalize_calls>>

ArrivalsResume ==
  /\ Due("arrivals_loop")
  /\ Commit(arrivals_loop(Stepped))
  /\ UNCHANGED <<phase, report, finalize_calls>>

ServiceStart ==
  /\ Due("service_init")
  /\ LET ev == HeapTop(env.queue) IN Commit(service_begin(Stepped, ev.cid, ev.srv))
  /\ UNCHANGED <<phase, report, finalize_calls>>

ServiceDone ==
  /\ Due("service_done")
  /\ LET ev == HeapTop(env.queue) IN Commit(service_end(Stepped, ev.cid, ev.srv))
  /\ UNCHANGED <<phase, report, finalize_calls>>

\* a finished Process event has no callbacks left
ProcessEnd ==
  /\ Due("process_end")
  /\ Commit(Stepped)
  /\ UNCHANGED <<phase, report, finalize_calls>>

\* the stop event of run(until): StopSimulation ends Environment.run
Until ==
  /\ Due("until")
  /\ Commit(Stepped)
  /\ phase' = "stopped"
  /\ UNCHANGED <<report, finalize_calls>>

\* ---------- finalization ----------

\* a float quotient, kept exact as numerator / denominator
Quot(num, den) == [num |-> num, den |-> den]
Zero == Quot(0, 1)

RECURSIVE SumOver(_, _)
SumOver(S, f) ==
  IF S = {} THEN 0
  ELSE LET x == CHOOSE y \in S : TRUE IN f[x] + SumOver(S \ {x}, f)

RECURSIVE SumAccum(_, _)
SumAccum(servers, i) ==
  IF i > Len(servers) THEN 0
  ELSE servers[i].busy_time_accum + SumAccum(servers, i + 1)

\* variant: a server still busy at the end is not closed out
close_busy_skipped(s, end_time) == s

\* variant: the busy interval is added but its start is not moved to end_time
close_busy_noreset(s, end_time) ==
  IF s.busy
    THEN [s EXCEPT !.busy_time_accum = @ + (end_time - s.last_state_change)]
    ELSE s

\* the loop over the servers: a server still busy is accounted up to end_time
close_busy(s, end_time) ==
  IF s.busy
    THEN [s EXCEPT !.busy_time_accum = @ + (end_time - s.last_state_change),
                   !.last_state_change = end_time]
    ELSE s

\* finalize_and_print_stats: the simulation object it leaves
finalize_sim(s, end_time) ==
  LET s1 == _update_q_time_area(s, end_time)
  IN  [s1 EXCEPT !.servers = [i \in 1..Len(s1.servers) |-> close_busy(s1.servers[i], end_time)]]

\* finalize_and_print_stats: the aggregate values it prints
finalize_stats(s, cs, end_time) ==
  LET s1 == finalize_sim(s, end_time)
      total_time == IF end_time > 0 THEN end_time ELSE 0
      waiting == s1.waiting_customers
      serving == s1.in_service
      busy_sum == SumAccum(s1.servers, 1)
  IN  [avg_q_len |-> IF total_time > 0 THEN Quot(s1.area_under_q, total_time) ELSE Zero,
       max_q_len |-> s1.max_q_len,
       avg_wait_time |-> IF s1.count_started > 0
                           THEN Quot(s1.total_wait_time, s1.count_started) ELSE Zero,
       queue_len_end |-> s1.cur_q_len,
       avg_wait_remaining |->
         IF waiting # {}
           THEN Quot(SumOver(waiting, [c \in waiting |-> end_time - cs[c].arrival_time]),
                     Cardinality(waiting))
           ELSE Zero,
       count_completed |-> s1.count_completed,
       avg_service_time_completed |->
         IF s1.count_completed > 0
           THEN Quot(s1.total_service_time_completed, s1.count_completed) ELSE Zero,
       num_in_service_end |-> Cardinality({i \in 1..Len(s1.servers) : s1.servers[i].busy}),
       avg_service_time_in_service |->
         IF serving # {}
           THEN Quot(SumOver(serving, [c \in serving |->
                       IF cs[c].service_time = None THEN 0 ELSE cs[c].service_time]),
                     Cardinality(serving))
           ELSE Zero,
       per_server_util |->
         [i \in 1..Len(s1.servers) |->
            [name |-> s1.servers[i].name,
             util |-> IF total_time > 0
                        THEN Quot(s1.servers[i].busy_time_accum, total_time) ELSE Zero]],
       overall_util |-> IF s1.N > 0 /\ total_time > 0
                          THEN Quot(busy_sum, s1.N * total_time) ELSE Zero]

\* main(): sim.finalize_and_print_stats() after sim.run() has returned
Finalize ==
  /\ phase = "stopped"
  /\ sim' = finalize_sim(sim, env.now)
  /\ report' = finalize_stats(sim, customers, env.now)
  /\ phase' = "finalized"
  /\ finalize_calls' = finalize_calls + 1
  /\ UNCHANGED <<customers, env, stdout, snap>>

\* finalize_and_print_stats called once more on the finished simulation
FinalizeAgain ==
  /\ phase = "finalized"
  /\ finalize_calls < MaxFinalizeCalls
  /\ sim' = finalize_sim(sim, env.now)
  /\ report' = finalize_stats(sim, customers, env.now)
  /\ finalize_calls' = finalize_calls + 1
  /\ UNCHANGED <<customers, env, stdout, snap, phase>>

Next ==
  \/ run
  \/ ArrivalsStart
  \/ ArrivalsResume
  \/ ServiceStart
  \/ ServiceDone
  \/ ProcessEnd
  \/ Until
  \/ Finalize
  \/ FinalizeAgain

Spec == Init /\ [][Next]_vars

\* ---------- interarrival time 0 ----------

\* parse_inputs accepts any numeric interarrival-time, 0 included
InitZero == InitWith({0}, 1..MaxHorizon)

\* the arrivals process resumed, explored for the first MaxCustomers arrivals
ArrivalsAgain ==
  /\ sim.next_cid <= MaxCustomers
  /\ ArrivalsResume

\* the steps a run with interarrival time 0 takes (C20 states that the
\* completion, stop and finalization steps are never due in it)
NextZero ==
  \/ run
  \/ ArrivalsStart
  \/ ArrivalsAgain
  \/ ServiceStart

SpecZero == InitZero /\ [][NextZero]_vars

\* ---------- properties ----------

Ended == phase \in {"stopped", "finalized"}

Lines(event) == {k \in DOMAIN stdout : stdout[k].event = event}

ServerIndex(name) == CHOOSE i \in DOMAIN ServerNames : ServerNames[i] = name

IsPrefix(a, b) == Len(a) <= Len(b) /\ SubSeq(b, 1, Len(a)) = a

Same(q, num, den) == q.num * den = num * q.den

Line(t, ev, c, srv, len, av) ==
  [time |-> t, event |-> ev, customer |-> c, server |-> srv, length |-> len, available |-> av]

\* one server S1 of service duration 4, interarrival time 3, horizon 10
Scenario ==
  /\ sim.N = 1
  /\ sim.servers[1].name = "S1"
  /\ sim.servers[1].service_time = 4
  /\ sim.interarrival_time = 3
  /\ sim.time_limit = 10

ScenarioLog ==
  << Line(0, "ARRIVAL", 1, "", 1, 1),
     Line(0, "SERVICE_START", 1, "S1", 0, 0),
     Line(3, "ARRIVAL", 2, "", 1, 0),
     Line(4, "SERVICE_DONE", 1, "S1", 1, 1),
     Line(4, "SERVICE_START", 2, "S1", 0, 0),
     Line(6, "ARRIVAL", 3, "", 1, 0),
     Line(8, "SERVICE_DONE", 2, "S1", 1, 1),
     Line(8, "SERVICE_START", 3, "S1", 0, 0),
     Line(9, "ARRIVAL", 4, "", 1, 0) >>

\* C1: in the scenario (S1 with duration 4, interarrival 3, horizon 10) the
\* lines printed are at every moment a prefix of the nine expected lines, and
\* once the run has ended they are exactly those nine, the clock is 10,
\* customer 3 is in service and customer 4 is the only one queued.
C1_ScenarioLog ==
  Scenario =>
    /\ IsPrefix(stdout, ScenarioLog)
    /\ Ended => /\ stdout = ScenarioLog
                /\ env.now = 10
                /\ sim.in_service = {3}
                /\ sim.queue = <<4>>

C1_Witness == Scenario /\ phase = "stopped" /\ Len(stdout) = 9

\* C2: in the scenario the finalized statistics are: 2 completed with total
\* service time 8 (average 4), 1 in service at the end with duration 4,
\* queue length 1 at the end, remaining wait 1, total wait 3 over 3 started
\* (average 1), area 4 (average 0.4), maximum queue length 1, S1 busy for 10
\* (utilization 1), overall utilization 1.
C2_ScenarioStats ==
  (Scenario /\ phase = "finalized") =>
    /\ report.count_completed = 2
    /\ sim.total_service_time_completed = 8
    /\ Same(report.avg_service_time_completed, 4, 1)
    /\ report.num_in_service_end = 1
    /\ Same(report.avg_service_time_in_service, 4, 1)
    /\ report.queue_len_end = 1
    /\ Same(report.avg_wait_remaining, 1, 1)
    /\ sim.total_wait_time = 3
    /\ sim.count_started = 3
    /\ Same(report.avg_wait_time, 1, 1)
    /\ sim.area_under_q = 4
    /\ Same(report.avg_q_len, 4, 10)
    /\ report.max_q_len = 1
    /\ sim.servers[1].busy_time_accum = 10
    /\ report.per_server_util[1].name = "S1"
    /\ Same(report.per_server_util[1].util, 1, 1)
    /\ Same(report.overall_util, 1, 1)

C2_Witness == Scenario /\ phase = "finalized" /\ report.count_completed = 2

\* C3: every printed line carries the number of customers actually in the
\* queue and the number of servers actually free at the moment it is printed,
\* and that moment is after the event's effects: after the enqueue for an
\* ARRIVAL, after the dequeue and the busy mark for a SERVICE_START, after the
\* server is freed for a SERVICE_DONE.
C3_LogMatchesState ==
  \A k \in DOMAIN stdout :
    LET l == stdout[k]
        o == snap[k]
        InQueue == \E i \in DOMAIN o.queue : o.queue[i] = l.customer
    IN  /\ l.length = Len(o.queue)
        /\ l.available = Cardinality({i \in DOMAIN o.busy : ~o.busy[i]})
        /\ l.event = "ARRIVAL" => InQueue
        /\ l.event = "SERVICE_START" => ~InQueue /\ o.busy[ServerIndex(l.server)]
        /\ l.event = "SERVICE_DONE" => ~o.busy[ServerIndex(l.server)]

C3_Witness ==
  /\ \E k \in Lines("ARRIVAL") : stdout[k].length >= 2
  /\ \E k \in Lines("ARRIVAL") : stdout[k].available >= 2
  /\ \E k \in Lines("SERVICE_START") : stdout[k].length >= 1
  /\ \E k \in Lines("SERVICE_DONE") : stdout[k].length >= 1 /\ stdout[k].available >= 1

\* C4: customers start service in strictly increasing id order, and of two
\* customers waiting in the queue at the same moment the one with the smaller
\* id has its SERVICE_START printed before the other's.
C4_FIFO ==
  /\ \A p, q \in Lines("SERVICE_START") :
       p < q => stdout[p].customer < stdout[q].customer
  /\ \A k \in DOMAIN snap : \A a, b \in DOMAIN snap[k].queue :
       LET i == snap[k].queue[a]
           j == snap[k].queue[b]
       IN  i < j =>
             \A q \in Lines("SERVICE_START") :
               stdout[q].customer = j =>
                 \E p \in Lines("SERVICE_START") : p < q /\ stdout[p].customer = i

C4_Witness ==
  \E k \in DOMAIN snap :
    /\ Len(snap[k].queue) >= 2
    /\ \A a \in DOMAIN snap[k].queue :
         \E q \in Lines("SERVICE_START") : stdout[q].customer = snap[k].queue[a]

\* C5 (as claimed): once the run has ended, for every k with (k-1) * interarrival
\* <= horizon, the horizon itself included, customer k has arrived at time
\* (k-1) * interarrival, and no arrival is later than the horizon.
C5_ArrivalsUpToHorizon ==
  Ended =>
    /\ \A k \in 1..((sim.time_limit \div sim.interarrival_time) + 1) :
         /\ \E a \in Lines("ARRIVAL") :
              /\ stdout[a].customer = k
              /\ stdout[a].time = (k - 1) * sim.interarrival_time
         /\ k \in DOMAIN customers
         /\ customers[k].arrival_time = (k - 1) * sim.interarrival_time
    /\ \A a \in Lines("ARRIVAL") : stdout[a].time <= sim.time_limit

\* C6: after every event, and at finalization, count_started is at least
\* count_completed and equals count_completed plus the number of customers in
\* service, which is the size of the in-service set, the number of busy
\* servers and the count finalization reports.
C6_StartedCompleted ==
  LET busy == Cardinality({i \in DOMAIN sim.servers : sim.servers[i].busy}) IN
  /\ sim.count_started >= sim.count_completed
  /\ sim.count_started = sim.count_completed + Cardinality(sim.in_service)
  /\ Cardinality(sim.in_service) = busy
  /\ phase = "finalized" =>
       /\ report.num_in_service_end = busy
       /\ sim.count_started = report.count_completed + report.num_in_service_end

C6_Witness ==
  /\ phase = "finalized"
  /\ sim.count_completed >= 2
  /\ report.num_in_service_end >= 1

\* C7: a SERVICE_START on the server at position k of the configured list is
\* issued only when every server before position k is busy.
C7_FirstFreeServer ==
  \A k \in Lines("SERVICE_START") :
    \A j \in 1..(ServerIndex(stdout[k].server) - 1) : snap[k].busy[j]

C7_Witness ==
  /\ sim.N >= 2
  /\ sim.servers[1].service_time > sim.servers[2].service_time
  /\ \E k \in Lines("SERVICE_START") : stdout[k].server = "S2"
  /\ \E k \in Lines("SERVICE_START") :
       /\ stdout[k].server = "S1"
       /\ ~snap[k].busy[2]
       /\ sim.servers[1].busy_time_accum > sim.servers[2].busy_time_accum

\* C8 (as claimed): with horizon 0, once the run is over exactly one arrival
\* has occurred (customer 1 at time 0), no SERVICE_DONE is printed, and the
\* finalization reports 0 for the average queue length and every utilization.
C8_ZeroHorizon ==
  (sim.time_limit = 0 /\ phase \in {"crashed", "stopped", "finalized"}) =>
    /\ Cardinality(Lines("ARRIVAL")) = 1
    /\ \A a \in Lines("ARRIVAL") : stdout[a].customer = 1 /\ stdout[a].time = 0
    /\ Lines("SERVICE_DONE") = {}
    /\ phase = "finalized" =>
         /\ Same(report.avg_q_len, 0, 1)
         /\ \A i \in DOMAIN report.per_server_util : Same(report.per_server_util[i].util, 0, 1)
         /\ Same(report.overall_util, 0, 1)

\* the events a run can ever schedule: the start of the arrivals and the stop
\* event, then one timeout per arrival and at most three events per service
EventBudget == 2 + 4 * ((sim.time_limit \div sim.interarrival_time) + 1)

\* C9: with positive interarrival time, service durations and horizon the run
\* terminates with the clock exactly at the horizon: while it runs the clock
\* is at most the horizon, the stop event at the horizon stays due (so a
\* further step is always possible), every step consumes one of a bounded
\* number of events, and once the run has ended the clock equals the horizon.
C9_EndsAtHorizon ==
  /\ phase = "running" =>
       /\ \E ev \in env.queue : ev.kind = "until" /\ ev.time = sim.time_limit
       /\ env.now <= sim.time_limit
       /\ env.eid <= EventBudget
  /\ Ended => env.now = sim.time_limit

C9_Witness ==
  /\ phase = "stopped"
  /\ env.now = sim.time_limit
  /\ \E ev \in env.queue : ev.kind = "arrivals_break"
  /\ sim.in_service # {}

\* C10: the customers in service are on pairwise distinct servers, each of
\* them busy, and between two SERVICE_STARTs on one server lies the
\* SERVICE_DONE of the first one's customer on that server.
C10_OneCustomerPerServer ==
  /\ \A c, d \in sim.in_service :
       c # d => customers[c].server_name # customers[d].server_name
  /\ \A c \in sim.in_service :
       /\ customers[c].server_name # NoName
       /\ sim.servers[ServerIndex(customers[c].server_name)].busy
  /\ \A p, q \in Lines("SERVICE_START") :
       (p < q /\ stdout[p].server = stdout[q].server) =>
         \E r \in Lines("SERVICE_DONE") :
           /\ p < r /\ r < q
           /\ stdout[r].customer = stdout[p].customer
           /\ stdout[r].server = stdout[p].server

C10_Witness ==
  /\ Cardinality(sim.in_service) >= 2
  /\ \E p, q \in Lines("SERVICE_START") : p < q /\ stdout[p].server = stdout[q].server
  /\ sim.queue # <<>>

QueueIds == {sim.queue[i] : i \in DOMAIN sim.queue}

Unassigned(c) ==
  /\ customers[c].server_name = NoName
  /\ customers[c].service_start_time = None
  /\ customers[c].service_time = None

Assigned(c) ==
  /\ customers[c].server_name # NoName
  /\ customers[c].service_start_time # None
  /\ customers[c].service_time # None

\* C11: after every event the queue holds exactly the customers that have
\* arrived and have no server, start time or service time yet (every other
\* customer has all three), each once; the waiting-customers map has the same
\* ids, and cur_q_len is the queue's length.
C11_QueueIsUnassigned ==
  /\ QueueIds \subseteq DOMAIN customers
  /\ Cardinality(QueueIds) = Len(sim.queue)
  /\ \A c \in DOMAIN customers :
       /\ customers[c].cid = c
       /\ c \in QueueIds <=> Unassigned(c)
       /\ c \notin QueueIds <=> Assigned(c)
  /\ sim.waiting_customers = QueueIds
  /\ sim.cur_q_len = Len(sim.queue)

C11_Witness ==
  /\ Len(sim.queue) >= 2
  /\ \E c \in DOMAIN customers : Assigned(c) /\ c \in sim.in_service
  /\ \E c \in DOMAIN customers : Assigned(c) /\ c \notin sim.in_service

\* C12: a further call of the finalization step on a finalized simulation
\* changes no accumulator or counter of the simulation and prints the same
\* aggregate values.
C12_FinalizeIdempotent ==
  [][(phase = "finalized" /\ phase' = "finalized") => (sim' = sim /\ report' = report)]_vars

C12_Witness ==
  /\ finalize_calls = 2
  /\ sim.queue # <<>>
  /\ \E i \in DOMAIN sim.servers : sim.servers[i].busy
  /\ \E i \in DOMAIN sim.servers : sim.servers[i].busy_time_accum > 0

\* C13: after every event no customer waits while a server is free, and a
\* customer that arrives while a server is free starts service in that same
\* event, at its arrival time.
C13_WorkConserving ==
  /\ ~(sim.queue # <<>> /\ \E i \in DOMAIN sim.servers : ~sim.servers[i].busy)
  /\ \A k \in Lines("ARRIVAL") :
       (\E i \in DOMAIN snap[k].busy : ~snap[k].busy[i]) =>
         /\ customers[stdout[k].customer].service_start_time
              = customers[stdout[k].customer].arrival_time
         /\ k + 1 \in Lines("SERVICE_START")
         /\ stdout[k + 1].customer = stdout[k].customer
         /\ stdout[k + 1].time = stdout[k].time

C13_Witness ==
  /\ sim.queue # <<>>
  /\ sim.N >= 2
  /\ \E k \in Lines("ARRIVAL") :
       /\ k > 1
       /\ \E i \in DOMAIN snap[k].busy : snap[k].busy[i]
       /\ \E i \in DOMAIN snap[k].busy : ~snap[k].busy[i]

\* the time at which the service of an assigned customer is due to complete
CompletionTime(c) == customers[c].service_start_time + customers[c].service_time

\* C14 (as claimed): once the run has ended, every service whose completion
\* time is at or before the horizon has been completed: its SERVICE_DONE is
\* printed, its customer is no longer in service and its server is not held
\* by it; the services reported in service are those completing after the
\* horizon.
C14_InFlightCompleted ==
  Ended =>
    \A c \in DOMAIN customers :
      (Assigned(c) /\ CompletionTime(c) <= sim.time_limit) =>
        /\ \E k \in Lines("SERVICE_DONE") : stdout[k].customer = c
        /\ c \notin sim.in_service
        /\ sim.servers[ServerIndex(customers[c].server_name)].current_cid # c

LinesOf(event, c) == {k \in Lines(event) : stdout[k].customer = c}

\* C15: every SERVICE_DONE of a customer is printed at that customer's
\* service start time plus the configured duration of its assigned server and
\* names that server; a customer has at most one line of each kind, and its
\* SERVICE_DONE follows its SERVICE_START, which follows its ARRIVAL.
C15_CompletionTiming ==
  /\ \A c \in DOMAIN customers :
       /\ Cardinality(LinesOf("ARRIVAL", c)) = 1
       /\ Cardinality(LinesOf("SERVICE_START", c)) <= 1
       /\ Cardinality(LinesOf("SERVICE_DONE", c)) <= 1
  /\ \A k \in Lines("SERVICE_START") :
       \E a \in LinesOf("ARRIVAL", stdout[k].customer) : a < k
  /\ \A k \in Lines("SERVICE_DONE") :
       LET c == stdout[k].customer
           srv == sim.servers[ServerIndex(customers[c].server_name)]
       IN  /\ c \in DOMAIN customers
           /\ Assigned(c)
           /\ stdout[k].time = customers[c].service_start_time + srv.service_time
           /\ stdout[k].server = customers[c].server_name
           /\ \E p \in LinesOf("SERVICE_START", c) :
                /\ p < k
                /\ stdout[p].server = stdout[k].server
                /\ stdout[p].time = customers[c].service_start_time

C15_Witness ==
  \E j, k \in Lines("SERVICE_DONE") :
    /\ stdout[j].server = "S1"
    /\ stdout[k].server = "S2"
    /\ sim.servers[1].service_time # sim.servers[2].service_time
    /\ sim.servers[2].service_time # sim.interarrival_time
    /\ customers[stdout[k].customer].arrival_time
         < customers[stdout[k].customer].service_start_time

FirstFreeIn(busy) == CHOOSE i \in DOMAIN busy : ~busy[i] /\ \A j \in 1..(i-1) : busy[j]

\* the line after line k starts the service of the front customer of the
\* queue as it was at line k, at the same time, on the first server then free
DispatchFollows(k) ==
  /\ k + 1 \in Lines("SERVICE_START")
  /\ stdout[k + 1].customer = Head(snap[k].queue)
  /\ stdout[k + 1].time = stdout[k].time
  /\ stdout[k + 1].server = ServerNames[FirstFreeIn(snap[k].busy)]

\* C16: a SERVICE_DONE printed while the queue is non-empty is followed
\* immediately by the SERVICE_START of the front customer, at the same
\* timestamp, on the first free server; likewise an ARRIVAL printed while a
\* server is free: nothing comes between an event and its own dispatch.
C16_DispatchImmediately ==
  /\ \A k \in Lines("SERVICE_DONE") : snap[k].queue # <<>> => DispatchFollows(k)
  /\ \A k \in Lines("ARRIVAL") :
       (\E i \in DOMAIN snap[k].busy : ~snap[k].busy[i]) => DispatchFollows(k)

C16_Witness ==
  /\ sim.N >= 2
  /\ \E k \in Lines("SERVICE_DONE") :
       /\ Len(snap[k].queue) >= 2
       /\ stdout[k].server = "S2"
       /\ DispatchFollows(k)

RECURSIVE Total(_, _)
Total(S, f) ==
  IF S = {} THEN 0
  ELSE LET x == CHOOSE y \in S : TRUE IN f[x] + Total(S \ {x}, f)

Largest(S) == IF S = {} THEN 0 ELSE CHOOSE x \in S : \A y \in S : y <= x

\* the time up to which the state printed at line k lasts
LastsUntil(k) == IF k < Len(stdout) THEN stdout[k + 1].time ELSE sim.time_limit

\* the time integral over [0, horizon] of the queue's length, from the queue
\* as it actually was at each printed line (the queue is empty before the first)
QueueIntegral ==
  Total(DOMAIN stdout,
        [k \in DOMAIN stdout |-> Len(snap[k].queue) * (LastsUntil(k) - stdout[k].time)])

\* C17: the maximum-queue-length statistic is always the largest length the
\* queue has had, and after finalization area_under_q is the exact time
\* integral of the queue's length over [0, horizon], which the reported
\* average divides by the horizon.
C17_QueueArea ==
  /\ sim.max_q_len = Largest({Len(snap[k].queue) : k \in DOMAIN snap})
  /\ phase = "finalized" =>
       /\ sim.area_under_q = QueueIntegral
       /\ report.max_q_len = sim.max_q_len
       /\ report.avg_q_len.num = QueueIntegral
       /\ report.avg_q_len.den = sim.time_limit

C17_Witness ==
  /\ phase = "finalized"
  /\ sim.queue # <<>>
  /\ sim.max_q_len >= 2
  /\ \E k \in DOMAIN stdout :
       /\ k < Len(stdout)
       /\ stdout[k + 1].time = stdout[k].time
       /\ Len(snap[k].queue) > Len(snap[k + 1].queue)
       /\ Len(snap[k + 1].queue) >= 1
       /\ stdout[k].time > 0

\* the end of the busy interval opened by the SERVICE_START at line k
IntervalEnd(k) ==
  LET done == {d \in LinesOf("SERVICE_DONE", stdout[k].customer) : d > k}
  IN  IF done = {} THEN sim.time_limit ELSE stdout[CHOOSE d \in done : TRUE].time

\* the total length of the intervals in which server i serves a customer
BusyTime(i) ==
  LET starts == {k \in Lines("SERVICE_START") : stdout[k].server = sim.servers[i].name}
  IN  Total(starts, [k \in starts |-> IntervalEnd(k) - stdout[k].time])

\* C18: after finalization every server's accumulated busy time is the total
\* length of its service intervals within [0, horizon], lies between 0 and
\* the horizon, and no reported utilization exceeds 1.
C18_BusyTime ==
  phase = "finalized" =>
    /\ \A i \in DOMAIN sim.servers :
         /\ sim.servers[i].busy_time_accum = BusyTime(i)
         /\ 0 <= sim.servers[i].busy_time_accum
         /\ sim.servers[i].busy_time_accum <= sim.time_limit
         /\ report.per_server_util[i].util.num = BusyTime(i)
         /\ report.per_server_util[i].util.num <= report.per_server_util[i].util.den
    /\ report.overall_util.num = Total(DOMAIN sim.servers, [i \in DOMAIN sim.servers |-> BusyTime(i)])
    /\ report.overall_util.num <= report.overall_util.den

C18_Witness ==
  /\ phase = "finalized"
  /\ sim.N >= 2
  /\ sim.servers[2].busy
  /\ sim.servers[2].busy_time_accum < sim.time_limit
  /\ \E k \in Lines("SERVICE_DONE") : stdout[k].server = "S2"
  /\ sim.servers[1].busy_time_accum = sim.time_limit

Timers == {"arrivals_loop", "arrivals_break", "service_done"}

NonDecreasing(lines) ==
  \A j, k \in DOMAIN lines : j < k => lines[j].time <= lines[k].time

\* C19: every step of the run processes exactly one pending event, none is
\* due earlier, and of the timers (arrival and service timeouts) due at the
\* same time it is the one scheduled first; pending events are told apart by
\* their scheduling number, so the choice is unique; the printed lines are
\* only ever extended, with non-decreasing timestamps.
C19_DeterministicOrder ==
  [][phase = "running" =>
       LET popped == env.queue \ env'.queue IN
       /\ Cardinality(popped) = 1
       /\ \A a, b \in env.queue : a # b => a.eid # b.eid
       /\ \A ev \in popped : \A o \in env.queue :
            /\ ev.time <= o.time
            /\ ev.time = env'.now
            /\ (ev.kind \in Timers /\ o.kind \in Timers /\ o.time = ev.time)
                 => ev.eid <= o.eid
       /\ IsPrefix(stdout, stdout')
       /\ NonDecreasing(stdout')]_vars

C19_Witness ==
  /\ \E d \in Lines("SERVICE_DONE"), a \in Lines("ARRIVAL") :
       d < a /\ stdout[d].time = stdout[a].time
  /\ \E a \in Lines("ARRIVAL"), d \in Lines("SERVICE_DONE") :
       a < d /\ stdout[a].time = stdout[d].time
  /\ \E d, e \in Lines("SERVICE_DONE") : d < e /\ stdout[d].time = stdout[e].time

\* C20: with interarrival time 0 and a positive horizon the input is not
\* rejected and the run does not end: the clock stays at 0, the arrivals
\* process is always due again at time 0, every customer arrives at time 0,
\* and neither a completion, nor the stop event at the horizon, nor the
\* finalization is ever reached.
C20_ZeroInterarrival ==
  /\ phase \in {"constructed", "running"}
  /\ finalize_calls = 0
  /\ env.now = 0
  /\ Len(customers) = sim.next_cid - 1
  /\ \A c \in DOMAIN customers : customers[c].arrival_time = 0
  /\ Lines("SERVICE_DONE") = {}
  /\ phase = "running" =>
       /\ \E ev \in env.queue :
            ev.kind \in {"arrivals_init", "arrivals_loop"} /\ ev.time = 0
       /\ \A ev \in env.queue :
            ev.kind \in {"until", "service_done", "arrivals_break"} => ev.time > 0
       /\ HeapTop(env.queue).time = 0
       /\ HeapTop(env.queue).kind \in {"arrivals_init", "arrivals_loop", "service_init"}

C20_Witness ==
  /\ phase = "running"
  /\ sim.interarrival_time = 0
  /\ sim.next_cid > MaxCustomers
  /\ sim.queue # <<>>
  /\ sim.in_service # {}

====
